---------------------------- MODULE Spec2Model ----------------------------
(***************************************************************************)
(* flask_apscheduler.scheduler.APScheduler: the facade over an APScheduler *)
(* BackgroundScheduler, its host gate, its configuration load and its      *)
(* predeclared-job load.                                                   *)
(*                                                                         *)
(* The engine (apscheduler.schedulers.base.BaseScheduler with its default  *)
(* MemoryJobStore) is a library the facade imports (scheduler.py line 20). *)
(* It is modelled by the Engine* operators from the library's contract:    *)
(* the exceptions each call raises and its effect on the running flag, the *)
(* list of pending jobs (jobs added while stopped) and the job store.      *)
(***************************************************************************)
EXTENDS Naturals, Sequences, FiniteSets, TLC

(* ------------------------------ bounds -------------------------------- *)

\* Longest list of pending (tentatively added) jobs the engine is driven to.
MaxPending == 2

\* Longest predeclared job list of a configuration.
MaxJobs == 2

(* --------------------------- input universes -------------------------- *)

Ids == {"a", "b"}

\* A falsy id ('' or None) and a falsy func (None).
EmptyId == ""

NoFunc == "None"

\* The wildcard of the allow-list.
Wildcard == "*"

HostNames == {"this-host", "other-host"}

\* A key that a mapping does not hold.
Absent == "<absent>"

\* Keyword options of add_job / modify_job: mappings from keys to values.
NoKwargs == [k \in {} |-> ""]

NameKwargs(name) == [k \in {"name"} |-> name]

IntervalKwargs ==
    [k \in {"args", "trigger", "seconds"} |->
        CASE k = "args" -> "(1,)" [] k = "trigger" -> "interval" [] k = "seconds" -> "5"]

\* add_job(id, func, **kwargs) as it is called: well-formed calls, calls that
\* give a name, and calls whose id or func is empty or missing.
AddCall(id, func, kw) == [id |-> id, func |-> func, kw |-> kw]

AddCalls ==
    { AddCall("a", "f", NoKwargs),
      AddCall("b", "g", IntervalKwargs),
      AddCall("a", "f", NameKwargs("n")),
      AddCall("b", "g", NameKwargs("")),
      AddCall(EmptyId, "f", NoKwargs),
      AddCall(EmptyId, NoFunc, NameKwargs("n")),
      AddCall(Absent, "f", NoKwargs),
      AddCall("a", NoFunc, NoKwargs),
      AddCall("b", Absent, IntervalKwargs) }

ModifyKwargs == { NoKwargs, NameKwargs("n") }

VARIABLES
    scheduler,       \* self.__scheduler: [running, pending, store]
    allowed_hosts,   \* self.__allowed_hosts
    host_name,       \* self.__host_name
    views_enabled,   \* self.__views_enabled
    app,             \* self.app: "None" or "app"
    last             \* the last facade call: operation, inputs, outcome, trace

vars == <<scheduler, allowed_hosts, host_name, views_enabled, app, last>>

(* ------------------------------ the engine ---------------------------- *)

Job(id, name, func, kw) ==
    [ id      |-> id,
      name    |-> name,
      func    |-> func,
      args    |-> IF "args" \in DOMAIN kw THEN kw["args"] ELSE "()",
      trigger |-> IF "trigger" \in DOMAIN kw THEN kw["trigger"] ELSE "date",
      paused  |-> FALSE ]

NoStore == [i \in {} |-> 0]

NewScheduler == [running |-> FALSE, pending |-> <<>>, store |-> NoStore]

Put(store, job) ==
    [i \in DOMAIN store \cup {job.id} |-> IF i = job.id THEN job ELSE store[i]]

Drop(store, id) == [i \in DOMAIN store \ {id} |-> store[i]]

RemoveAt(s, n) == [i \in 1..(Len(s) - 1) |-> IF i < n THEN s[i] ELSE s[i + 1]]

\* Result of an engine call: the engine afterwards, the error raised ("" when
\* none) and the value returned (<<>> for None).
Res(sch, err, ret) == [sch |-> sch, err |-> err, ret |-> ret]

PendingAt(sch, id) == {i \in 1..Len(sch.pending) : sch.pending[i].id = id}

FirstPending(sch, id) ==
    CHOOSE i \in PendingAt(sch, id) : \A j \in PendingAt(sch, id) : i <= j

\* BaseScheduler._lookup_job: the pending jobs first, then the job store.
Held(sch, id) == PendingAt(sch, id) # {} \/ id \in DOMAIN sch.store

LookupJob(sch, id) ==
    IF PendingAt(sch, id) # {} THEN sch.pending[FirstPending(sch, id)]
    ELSE sch.store[id]

\* BaseScheduler.start schedules the pending jobs one by one; the job store
\* refuses an id it already holds (ConflictingIdError).
RECURSIVE SchedulePending(_, _)
SchedulePending(pend, store) ==
    IF pend = <<>> THEN [store |-> store, ok |-> TRUE]
    ELSE IF Head(pend).id \in DOMAIN store THEN [store |-> store, ok |-> FALSE]
    ELSE SchedulePending(Tail(pend), Put(store, Head(pend)))

EngineStart(sch) ==
    IF sch.running THEN Res(sch, "SchedulerAlreadyRunningError", <<>>)
    ELSE LET r == SchedulePending(sch.pending, sch.store)
         IN  IF r.ok
             THEN Res([running |-> TRUE, pending |-> <<>>, store |-> r.store], "", <<>>)
             ELSE Res([sch EXCEPT !.store = r.store], "ConflictingIdError", <<>>)

\* BaseScheduler.shutdown; the MemoryJobStore drops its jobs when shut down.
EngineShutdown(sch) ==
    IF ~sch.running THEN Res(sch, "SchedulerNotRunningError", <<>>)
    ELSE Res([running |-> FALSE, pending |-> <<>>, store |-> NoStore], "", <<>>)

\* BaseScheduler.configure: only while the engine is stopped.
EngineConfigure(sch) ==
    IF sch.running THEN Res(sch, "SchedulerAlreadyRunningError", <<>>)
    ELSE Res(sch, "", <<>>)

EngineAddJob(sch, func, id, name, kw) ==
    LET job == Job(id, name, func, kw)
    IN  IF ~sch.running
        THEN Res([sch EXCEPT !.pending = Append(@, job)], "", <<job>>)
        ELSE IF id \in DOMAIN sch.store
             THEN Res(sch, "ConflictingIdError", <<>>)
             ELSE Res([sch EXCEPT !.store = Put(@, job)], "", <<job>>)

EngineGetJob(sch, id) ==
    IF Held(sch, id) THEN Res(sch, "", <<LookupJob(sch, id)>>) ELSE Res(sch, "", <<>>)

EngineRemoveJob(sch, id) ==
    IF PendingAt(sch, id) # {}
    THEN Res([sch EXCEPT !.pending = RemoveAt(@, FirstPending(sch, id))], "", <<>>)
    ELSE IF id \in DOMAIN sch.store
         THEN Res([sch EXCEPT !.store = Drop(@, id)], "", <<>>)
         ELSE Res(sch, "JobLookupError", <<>>)

\* Replace the held job `id` (the first pending one, else the stored one).
Update(sch, id, job) ==
    IF PendingAt(sch, id) # {}
    THEN [sch EXCEPT !.pending[FirstPending(sch, id)] = job]
    ELSE [sch EXCEPT !.store[id] = job]

Changed(job, kw) ==
    [job EXCEPT !.name = IF "name" \in DOMAIN kw THEN kw["name"] ELSE @,
                !.args = IF "args" \in DOMAIN kw THEN kw["args"] ELSE @]

EngineModifyJob(sch, id, kw) ==
    IF ~Held(sch, id) THEN Res(sch, "JobLookupError", <<>>)
    ELSE Res(Update(sch, id, Changed(LookupJob(sch, id), kw)), "", <<>>)

EnginePauseJob(sch, id) ==
    IF ~Held(sch, id) THEN Res(sch, "JobLookupError", <<>>)
    ELSE Res(Update(sch, id, [LookupJob(sch, id) EXCEPT !.paused = TRUE]), "", <<>>)

\* BaseScheduler.resume_job: a job whose trigger has no fire time left is removed.
EngineResumeJob(sch, id, exhausted) ==
    IF ~Held(sch, id) THEN Res(sch, "JobLookupError", <<>>)
    ELSE IF exhausted THEN EngineRemoveJob(sch, id)
    ELSE Res(Update(sch, id, [LookupJob(sch, id) EXCEPT !.paused = FALSE]), "", <<>>)


(* ------------------------------ the facade ---------------------------- *)

\* One step of a call's trace: an operation the facade invoked, and on which id.
Call(api, id) == [api |-> api, id |-> id]

\* State of the facade object.
Facade(sch, allowed, views, a) ==
    [scheduler |-> sch, allowed_hosts |-> allowed, views_enabled |-> views, app |-> a]

\* Outcome of a facade call: the facade afterwards, "ok" or the exception that
\* reached the caller, the exception the engine raised ("" when none), the value
\* returned (<<>> for None), the trace of invoked operations, the callables run
\* on the caller's thread and the messages logged.
Out(st, outcome, engineErr, ret, calls, invoked, log) ==
    [st |-> st, outcome |-> outcome, engineErr |-> engineErr, ret |-> ret,
     calls |-> calls, invoked |-> invoked, log |-> log]

\* An engine call made last by the facade, its failure passed straight through.
Passed(st, r, calls) ==
    Out([st EXCEPT !.scheduler = r.sch], IF r.err = "" THEN "ok" ELSE r.err, r.err,
        r.ret, calls, <<>>, <<>>)

Raised(st, exc, calls) == Out(st, exc, "", <<>>, calls, <<>>, <<>>)

\* utils.fix_job_def: a plain-string trigger becomes the structured trigger
\* configuration, which takes in the top-level keys that belong to the trigger.
TriggerKeys == {"seconds"}

Structured(kw) ==
    IF "seconds" \in DOMAIN kw /\ kw["seconds"] = "5" /\ kw["trigger"] = "interval"
    THEN "{type:interval,seconds:5}"
    ELSE IF kw["trigger"] = "interval" THEN "{type:interval}"
    ELSE "{type:date}"

PlainTriggers == {"interval", "date"}

FixJobDef(kw) ==
    IF "trigger" \in DOMAIN kw /\ kw["trigger"] \in PlainTriggers
    THEN [k \in DOMAIN kw \ TriggerKeys |-> IF k = "trigger" THEN Structured(kw) ELSE kw[k]]
    ELSE kw

\* The gate, were an empty allow-list let through to the engine.
NotAllowedUnlessEmpty(allowed, host) ==
    allowed # {} /\ host \notin allowed /\ Wildcard \notin allowed

NotAllowed(allowed, host) == host \notin allowed /\ Wildcard \notin allowed

NoServerMsg == "No server allowed to start the scheduler."

NotAllowedMsg == "Host name is not allowed to start the APScheduler."

\* start, were the return of the not-allowed branch missing.
StartNoReturn(st, host) ==
    Passed(st, EngineStart(st.scheduler), <<Call("engine.start", "-")>>)

\* start, were the engine's failure caught and dropped.
StartSwallows(st, host) ==
    IF NotAllowed(st.allowed_hosts, host)
    THEN Out(st, "ok", "", <<>>, <<>>, <<>>, <<NotAllowedMsg>>)
    ELSE [Passed(st, EngineStart(st.scheduler), <<Call("engine.start", "-")>>)
             EXCEPT !.outcome = "ok"]

Start(st, host) ==
    LET log == IF st.allowed_hosts = {} THEN <<NoServerMsg>> ELSE <<>>
    IN  IF NotAllowed(st.allowed_hosts, host)
        THEN Out(st, "ok", "", <<>>, <<>>, <<>>, Append(log, NotAllowedMsg))
        ELSE [Passed(st, EngineStart(st.scheduler), <<Call("engine.start", "-")>>)
                 EXCEPT !.log = log]

\* shutdown, were it to skip an engine that is not running.
ShutdownQuiet(st) ==
    IF st.scheduler.running
    THEN Passed(st, EngineShutdown(st.scheduler), <<Call("engine.shutdown", "-")>>)
    ELSE Out(st, "ok", "", <<>>, <<>>, <<>>, <<>>)

Shutdown(st) ==
    Passed(st, EngineShutdown(st.scheduler), <<Call("engine.shutdown", "-")>>)

\* kwargs.get('name') or id
NameOf(id, kw) == IF "name" \in DOMAIN kw /\ kw["name"] # "" THEN kw["name"] ELSE id

\* add_job, were the check of func missing.
AddJobUncheckedFunc(st, id, func, kw) ==
    IF id = Absent \/ func = Absent THEN Raised(st, "TypeError", <<>>)
    ELSE IF id = EmptyId THEN Raised(st, "Exception", <<>>)
    ELSE IF "name" \in DOMAIN FixJobDef(kw) THEN Raised(st, "TypeError", <<>>)
    ELSE Passed(st, EngineAddJob(st.scheduler, func, id, NameOf(id, kw), FixJobDef(kw)),
                <<Call("engine.add_job", id)>>)

AddJob(st, id, func, kw) ==
    IF id = Absent \/ func = Absent THEN Raised(st, "TypeError", <<>>)
    ELSE IF id = EmptyId THEN Raised(st, "Exception", <<>>)
    ELSE IF func = NoFunc THEN Raised(st, "Exception", <<>>)
    ELSE LET name == NameOf(id, kw)
             kw2  == FixJobDef(kw)
         IN  \* add_job(func, id=id, name=name, **kwargs): a 'name' left in kwargs
             \* is a second value for the keyword argument 'name'.
             IF "name" \in DOMAIN kw2 THEN Raised(st, "TypeError", <<>>)
             ELSE Passed(st, EngineAddJob(st.scheduler, func, id, name, kw2),
                         <<Call("engine.add_job", id)>>)

\* delete_job, were the engine's lookup failure caught and dropped.
DeleteJobQuiet(st, id) ==
    [Passed(st, EngineRemoveJob(st.scheduler, id), <<Call("engine.remove_job", id)>>)
        EXCEPT !.outcome = "ok"]

DeleteJob(st, id) ==
    Passed(st, EngineRemoveJob(st.scheduler, id), <<Call("engine.remove_job", id)>>)

ModifyJob(st, id, kw) ==
    IF id = Absent THEN Raised(st, "TypeError", <<>>)
    ELSE IF id = EmptyId THEN Raised(st, "Exception", <<>>)
    ELSE LET m == EngineModifyJob(st.scheduler, id, FixJobDef(kw))
         IN  IF m.err # "" THEN Passed(st, m, <<Call("engine.modify_job", id)>>)
             ELSE Passed(st, EngineGetJob(m.sch, id),
                         <<Call("engine.modify_job", id), Call("engine.get_job", id)>>)

PauseJob(st, id) ==
    Passed(st, EnginePauseJob(st.scheduler, id), <<Call("engine.pause_job", id)>>)

ResumeJob(st, id, exhausted) ==
    Passed(st, EngineResumeJob(st.scheduler, id, exhausted),
           <<Call("engine.resume_job", id)>>)

\* A callable run on the caller's thread, with the arguments it was given.
Invocation(job) == [func |-> job.func, args |-> job.args]

\* run_job, were the callable called without the stored arguments.
RunJobNoArgs(st, id) ==
    LET g == EngineGetJob(st.scheduler, id)
        calls == <<Call("engine.get_job", id)>>
    IN  IF g.ret = <<>> THEN Raised(st, "LookupError", calls)
        ELSE Out(st, "ok", "", <<>>, calls, <<[func |-> g.ret[1].func, args |-> "()"]>>, <<>>)

RunJob(st, id) ==
    LET g == EngineGetJob(st.scheduler, id)
        calls == <<Call("engine.get_job", id)>>
    IN  IF g.ret = <<>> THEN Raised(st, "LookupError", calls)
        ELSE Out(st, "ok", "", <<>>, calls, <<Invocation(g.ret[1])>>, <<>>)

(* --------------------- configuration and initialisation --------------- *)

\* Predeclared job definitions a configuration may list: two well-formed ones
\* and one with an empty id.
JobDef(id, func, kw) == [id |-> id, func |-> func, kw |-> kw]

JobDefs ==
    { JobDef("a", "f", NoKwargs),
      JobDef("b", "g", NoKwargs),
      JobDef(EmptyId, "f", NoKwargs) }

JobLists == UNION {[1..n -> JobDefs] : n \in 0..MaxJobs}

\* Values of the fallback key JOBS.
FallbackLists == {<<>>, <<JobDef("b", "f", NoKwargs)>>}

AllowedLists == {{}, {Wildcard}, {"this-host"}, {Wildcard, "other-host"}}

\* app.config: a mapping that holds any subset of the keys the facade reads.
ConfigKeys == {"SCHEDULER_ALLOWED_HOSTS", "SCHEDULER_VIEWS_ENABLED", "SCHEDULER_JOBS", "JOBS"}

\* A key left out (<<>>) or set to one of the values (<<v>>).
Opt(values) == {<<>>} \cup {<<v>> : v \in values}

Config(allowed, views, sjobs, jobs) ==
    [k \in {x \in ConfigKeys :
               \/ x = "SCHEDULER_ALLOWED_HOSTS" /\ allowed # <<>>
               \/ x = "SCHEDULER_VIEWS_ENABLED" /\ views # <<>>
               \/ x = "SCHEDULER_JOBS" /\ sjobs # <<>>
               \/ x = "JOBS" /\ jobs # <<>>} |->
        CASE k = "SCHEDULER_ALLOWED_HOSTS" -> allowed[1]
          [] k = "SCHEDULER_VIEWS_ENABLED" -> views[1]
          [] k = "SCHEDULER_JOBS" -> sjobs[1]
          [] k = "JOBS" -> jobs[1]]

\* Configurations of the host gate and the views flag.
GateConfigs ==
    { Config(a, v, <<>>, <<>>) : a \in Opt(AllowedLists), v \in Opt(BOOLEAN) }

\* The configuration that sets no key.
PlainConfigs == { Config(<<>>, <<>>, <<>>, <<>>) }

\* Configurations of the predeclared jobs.
JobConfigs ==
    { Config(<<>>, v, s, j) : v \in Opt({TRUE}), s \in Opt(JobLists), j \in Opt(FallbackLists) }

\* config.get(key, default)
Get(cfg, key, default) == IF key \in DOMAIN cfg THEN cfg[key] ELSE default

\* __load_config, were the allow-list read before the engine is configured.
LoadConfigEager(st, cfg) ==
    LET c == EngineConfigure(st.scheduler)
        calls == <<Call("engine.configure", "-")>>
        early == [st EXCEPT !.allowed_hosts = Get(cfg, "SCHEDULER_ALLOWED_HOSTS", @)]
    IN  IF c.err # "" THEN Passed(early, c, calls)
        ELSE Out([early EXCEPT !.scheduler = c.sch,
                               !.views_enabled = Get(cfg, "SCHEDULER_VIEWS_ENABLED", @)],
                 "ok", "", <<>>, calls, <<>>, <<>>)

LoadConfig(st, cfg) ==
    LET c == EngineConfigure(st.scheduler)
        calls == <<Call("engine.configure", "-")>>
    IN  IF c.err # "" THEN Passed(st, c, calls)
        ELSE Out([st EXCEPT !.scheduler = c.sch,
                            !.allowed_hosts = Get(cfg, "SCHEDULER_ALLOWED_HOSTS", @),
                            !.views_enabled = Get(cfg, "SCHEDULER_VIEWS_ENABLED", @)],
                 "ok", "", <<>>, calls, <<>>, <<>>)

\* __load_jobs, were JOBS read only when SCHEDULER_JOBS is not set.
ChosenJobsFirstPresent(cfg) ==
    IF "SCHEDULER_JOBS" \in DOMAIN cfg THEN cfg["SCHEDULER_JOBS"]
    ELSE Get(cfg, "JOBS", <<>>)

\* jobs = config.get('SCHEDULER_JOBS'); if not jobs: jobs = config.get('JOBS')
\* (None and the empty list are both falsy, and neither is iterated).
ChosenJobs(cfg) ==
    IF Get(cfg, "SCHEDULER_JOBS", <<>>) # <<>> THEN cfg["SCHEDULER_JOBS"]
    ELSE Get(cfg, "JOBS", <<>>)

\* for job in jobs: self.add_job(**job) -- the first exception ends the loop.
RECURSIVE AddEach(_, _, _)
AddEach(st, jobs, calls) ==
    IF jobs = <<>> THEN Out(st, "ok", "", <<>>, calls, <<>>, <<>>)
    ELSE LET job == Head(jobs)
             a == AddJob(st, job.id, job.func, job.kw)
             sofar == (calls \o <<Call("self.add_job", job.id)>>) \o a.calls
         IN  IF a.outcome # "ok" THEN [a EXCEPT !.calls = sofar]
             ELSE AddEach(a.st, Tail(jobs), sofar)

LoadJobs(st, cfg, calls) == AddEach(st, ChosenJobs(cfg), calls)

\* The url rules go to the Flask application, which the facade only holds.
LoadViews(st, calls) ==
    Out(st, "ok", "", <<>>, Append(calls, Call("app.add_url_rule", "-")), <<>>, <<>>)

InitApp(st, isFlask, cfg) ==
    IF ~isFlask THEN Raised(st, "TypeError", <<>>)
    ELSE LET c == LoadConfig([st EXCEPT !.app = "app"], cfg)
         IN  IF c.outcome # "ok" THEN c
             ELSE LET j == LoadJobs(c.st, cfg, c.calls)
                  IN  IF j.outcome # "ok" THEN j
                      ELSE IF j.st.views_enabled THEN LoadViews(j.st, j.calls)
                      ELSE j

(* ------------------------------- actions ------------------------------ *)

Self == Facade(scheduler, allowed_hosts, views_enabled, app)

\* The facade after the call, and the record of the call.
Becomes(op, arg, o) ==
    /\ scheduler' = o.st.scheduler
    /\ allowed_hosts' = o.st.allowed_hosts
    /\ views_enabled' = o.st.views_enabled
    /\ app' = o.st.app
    /\ host_name' = host_name
    /\ last' = [op |-> op, arg |-> arg, outcome |-> o.outcome, engineErr |-> o.engineErr,
                ret |-> o.ret, calls |-> o.calls, invoked |-> o.invoked, log |-> o.log]

\* __init__(scheduler=None, app=None) on a host of either name.
Init ==
    /\ scheduler = NewScheduler
    /\ allowed_hosts = {Wildcard}
    /\ host_name \in HostNames
    /\ views_enabled = FALSE
    /\ app = "None"
    /\ last = [op |-> "__init__", arg |-> "-", outcome |-> "ok", engineErr |-> "",
               ret |-> <<>>, calls |-> <<>>, invoked |-> <<>>, log |-> <<>>]

Room(n) == scheduler.running \/ Len(scheduler.pending) + n <= MaxPending

InitAppStep(configs) ==
    \E isFlask \in BOOLEAN, cfg \in configs :
        /\ Room(Len(ChosenJobs(cfg)))
        /\ Becomes("init_app", [isFlask |-> isFlask, cfg |-> cfg], InitApp(Self, isFlask, cfg))

AddJobStep(calls) ==
    \E c \in calls :
        /\ Room(1)
        /\ Becomes("add_job", c, AddJob(Self, c.id, c.func, c.kw))

DoInitApp == InitAppStep(PlainConfigs)

DoStart == Becomes("start", "-", Start(Self, host_name))

DoShutdown == Becomes("shutdown", "-", Shutdown(Self))

DoAddJob == AddJobStep(AddCalls)

DoDeleteJob ==
    \E id \in Ids \cup {EmptyId} : Becomes("delete_job", [id |-> id], DeleteJob(Self, id))

DoModifyJob ==
    \E id \in Ids \cup {EmptyId, Absent}, kw \in ModifyKwargs :
        Becomes("modify_job", [id |-> id, kw |-> kw], ModifyJob(Self, id, kw))

DoPauseJob ==
    \E id \in Ids \cup {EmptyId} : Becomes("pause_job", [id |-> id], PauseJob(Self, id))

DoResumeJob ==
    \E id \in Ids \cup {EmptyId}, exhausted \in BOOLEAN :
        Becomes("resume_job", [id |-> id], ResumeJob(Self, id, exhausted))

DoRunJob ==
    \E id \in Ids \cup {EmptyId} : Becomes("run_job", [id |-> id], RunJob(Self, id))

\* Every operation of the facade, on jobs of every shape.
Next ==
    \/ DoInitApp
    \/ DoStart
    \/ DoShutdown
    \/ DoAddJob
    \/ DoDeleteJob
    \/ DoModifyJob
    \/ DoPauseJob
    \/ DoResumeJob
    \/ DoRunJob

Spec == Init /\ [][Next]_vars

\* The life cycle under every configuration of the host gate.
DoInitAppGate == InitAppStep(GateConfigs)

DoAddJobPlain == AddJobStep({AddCall("a", "f", NoKwargs), AddCall("b", "g", NoKwargs)})

NextGate ==
    \/ DoInitAppGate
    \/ DoStart
    \/ DoShutdown
    \/ DoAddJobPlain
    \/ DoDeleteJob

SpecGate == Init /\ [][NextGate]_vars

\* Initialisation under every configuration of the predeclared jobs.
DoInitAppJobs == InitAppStep(JobConfigs)

NextLoad ==
    \/ DoInitAppJobs
    \/ DoStart
    \/ DoShutdown
    \/ DoDeleteJob

SpecLoad == Init /\ [][NextLoad]_vars

(* ------------------------------- the gate ----------------------------- *)

EngineStartCall == <<Call("engine.start", "-")>>

\* The step is a call of `op` (or leaves everything as a call of `op` left it).
Called(op) == last'.op = op

\* C1: when host_name is not in allowed_hosts and allowed_hosts holds no
\* wildcard, start returns normally without invoking the engine's start, and
\* the engine (running flag, pending jobs, job store) is as it was before.
C1_DeniedStartLeavesEngine ==
    [][(Called("start") /\ host_name \notin allowed_hosts /\ Wildcard \notin allowed_hosts)
          => /\ last'.outcome = "ok"
             /\ last'.calls = <<>>
             /\ scheduler' = scheduler]_vars

\* A denied start on an engine that holds a pending job.
C1_Witness ==
    /\ last.op = "start"
    /\ host_name \notin allowed_hosts /\ Wildcard \notin allowed_hosts
    /\ allowed_hosts # {}
    /\ last.outcome = "ok" /\ last.calls = <<>>
    /\ scheduler.pending # <<>>

\* C2: when allowed_hosts holds the wildcard or host_name, start invokes the
\* engine's start exactly once, the engine is left as its start leaves it, and
\* what the engine raises (for one, already running) is what the caller gets.
C2_AllowedStartCallsEngine ==
    [][(Called("start") /\ (Wildcard \in allowed_hosts \/ host_name \in allowed_hosts))
          => /\ last'.calls = EngineStartCall
             /\ scheduler' = EngineStart(scheduler).sch
             /\ last'.engineErr = EngineStart(scheduler).err
             /\ last'.outcome = IF last'.engineErr = "" THEN "ok" ELSE last'.engineErr]_vars

\* An allowed start, by host name, on a running engine: the failure reaches the caller.
C2_Witness ==
    /\ last.op = "start"
    /\ host_name \in allowed_hosts /\ Wildcard \notin allowed_hosts
    /\ last.calls = EngineStartCall
    /\ last.outcome = "SchedulerAlreadyRunningError"

\* C3 as claimed: with an empty allowed_hosts, start records the 'no server
\* allowed' message and still calls through to the engine's start.
C3_EmptyListStillStarts ==
    (last.op = "start" /\ allowed_hosts = {})
        => /\ \E i \in 1..Len(last.log) : last.log[i] = NoServerMsg
           /\ last.calls = EngineStartCall

\* C3 as amended: with an empty allowed_hosts, start records the 'no server
\* allowed' message and then takes the early return of the not-in-list branch
\* (no host is in an empty list): the engine's start is not invoked and the
\* engine is as it was before.
C3_EmptyListReturnsEarly ==
    [][(Called("start") /\ allowed_hosts = {})
          => /\ last'.log = <<NoServerMsg, NotAllowedMsg>>
             /\ last'.outcome = "ok"
             /\ last'.calls = <<>>
             /\ scheduler' = scheduler]_vars

\* A start under an empty allow-list, on an engine that holds a pending job.
C3_Witness ==
    /\ last.op = "start"
    /\ allowed_hosts = {}
    /\ last.log = <<NoServerMsg, NotAllowedMsg>>
    /\ last.calls = <<>>
    /\ ~scheduler.running
    /\ scheduler.pending # <<>>

\* C7 as claimed: shutdown fails with the engine's not-running error whenever the
\* engine is not running, a start the gate turned into a no-op included; after
\* a start that invoked the engine, shutdown succeeds and running becomes false.
C7_ShutdownAfterAnyEngineStart ==
    [][Called("shutdown")
          => /\ ~scheduler.running
                 => last'.outcome = "SchedulerNotRunningError" /\ scheduler' = scheduler
             /\ (last.op = "start" /\ last.calls = EngineStartCall)
                 => last'.outcome = "ok" /\ ~scheduler'.running]_vars

\* C7 as amended: shutdown fails with the engine's not-running error whenever the
\* engine is not running, a start the gate turned into a no-op included; after
\* a start in which the engine's start returned normally or found the engine
\* running, shutdown succeeds and running becomes false. (An engine start that
\* fails on two pending jobs of one id leaves the engine stopped.)
C7_ShutdownAfterEngineStarted ==
    [][Called("shutdown")
          => /\ ~scheduler.running
                 => last'.outcome = "SchedulerNotRunningError" /\ scheduler' = scheduler
             /\ (/\ last.op = "start"
                 /\ last.calls = EngineStartCall
                 /\ last.outcome \in {"ok", "SchedulerAlreadyRunningError"})
                 => last'.outcome = "ok" /\ ~scheduler'.running]_vars

\* A shutdown that fails on a host the gate keeps from starting the engine.
C7_Witness ==
    /\ last.op = "shutdown"
    /\ last.outcome = "SchedulerNotRunningError"
    /\ host_name \notin allowed_hosts /\ Wildcard \notin allowed_hosts
    /\ app = "app"

\* C10: over construction, init_app, start and shutdown, whenever the engine is
\* running, host_name is in allowed_hosts or allowed_hosts holds the wildcard.
C10_RunningOnlyWhereAllowed ==
    scheduler.running => (host_name \in allowed_hosts \/ Wildcard \in allowed_hosts)

\* An init_app after start whose configuration excludes this host: the engine
\* refuses to be configured while running, and the allow-list is not replaced.
C10_Witness ==
    /\ last.op = "init_app"
    /\ last.arg.isFlask
    /\ "SCHEDULER_ALLOWED_HOSTS" \in DOMAIN last.arg.cfg
    /\ host_name \notin last.arg.cfg["SCHEDULER_ALLOWED_HOSTS"]
    /\ Wildcard \notin last.arg.cfg["SCHEDULER_ALLOWED_HOSTS"]
    /\ scheduler.running
    /\ last.outcome = "SchedulerAlreadyRunningError"

(* ------------------------------- the jobs ----------------------------- *)

ArgumentErrors == {"Exception", "TypeError"}

\* C4: add_job with an empty or missing id or func, and modify_job with an
\* empty or missing id, fail with an argument error before any engine operation
\* is invoked, and the engine is as it was before, running or not.
C4_ValidationPrecedesEngine ==
    [][(\/ Called("add_job") /\ (\/ last'.arg.id \in {EmptyId, Absent}
                                  \/ last'.arg.func \in {NoFunc, Absent})
        \/ Called("modify_job") /\ last'.arg.id \in {EmptyId, Absent})
          => /\ last'.outcome \in ArgumentErrors
             /\ last'.calls = <<>>
             /\ scheduler' = scheduler]_vars

\* A modify_job without an id on a running engine that holds a job.
C4_Witness ==
    /\ last.op = "modify_job"
    /\ last.arg.id = EmptyId
    /\ last.outcome = "Exception"
    /\ last.calls = <<>>
    /\ scheduler.running
    /\ DOMAIN scheduler.store # {}

\* C5: add_job with a non-empty id and a non-empty func, which the engine does
\* not refuse, returns the job the engine created: its id is the given id and
\* its name is the name of the keyword options, or the id when they hold no
\* name or an empty one.
C5_AddJobReturnsNamedJob ==
    (/\ last.op = "add_job"
     /\ last.arg.id \notin {EmptyId, Absent}
     /\ last.arg.func \notin {NoFunc, Absent}
     /\ last.engineErr = "")
        => /\ last.outcome = "ok"
           /\ Len(last.ret) = 1
           /\ last.ret[1].id = last.arg.id
           /\ last.ret[1].name =
                 IF "name" \in DOMAIN last.arg.kw /\ last.arg.kw["name"] # ""
                 THEN last.arg.kw["name"] ELSE last.arg.id

\* C6: run_job of an id the engine does not hold fails with LookupError and
\* runs nothing; of an id it holds, it runs the job's callable once, within the
\* call, with the job's arguments, whatever the trigger, paused or not, engine
\* running or not; the engine is only read (get_job) and is as it was before.
C6_RunJobRunsStoredCallable ==
    [][Called("run_job")
          => /\ scheduler' = scheduler
             /\ last'.calls = <<Call("engine.get_job", last'.arg.id)>>
             /\ IF Held(scheduler, last'.arg.id)
                THEN /\ last'.outcome = "ok"
                     /\ last'.invoked =
                           <<[func |-> LookupJob(scheduler, last'.arg.id).func,
                              args |-> LookupJob(scheduler, last'.arg.id).args]>>
                ELSE /\ last'.outcome = "LookupError"
                     /\ last'.invoked = <<>>]_vars

\* A run of a paused interval job, with its argument, on a stopped engine.
C6_Witness ==
    /\ last.op = "run_job"
    /\ last.outcome = "ok"
    /\ ~scheduler.running
    /\ Held(scheduler, last.arg.id)
    /\ LookupJob(scheduler, last.arg.id).paused
    /\ LookupJob(scheduler, last.arg.id).trigger = "{type:interval,seconds:5}"
    /\ last.invoked = <<[func |-> "g", args |-> "(1,)"]>>

JobOps == {"delete_job", "pause_job", "resume_job", "modify_job"}

\* C9 as claimed: delete_job, pause_job, resume_job and modify_job of an id the
\* engine does not hold end with the engine's lookup failure at the caller, and
\* the engine is as it was before.
C9_LookupFailurePassesThrough ==
    [][(last'.op \in JobOps /\ last'.arg.id # Absent /\ ~Held(scheduler, last'.arg.id))
          => /\ last'.engineErr = "JobLookupError"
             /\ last'.outcome = "JobLookupError"
             /\ scheduler' = scheduler]_vars

\* C9 as amended: delete_job, pause_job and resume_job of an id the engine does
\* not hold, and modify_job of a non-empty id it does not hold, end with the
\* engine's lookup failure at the caller, and the engine is as it was before.
\* (modify_job of an empty id fails with the facade's own argument error.)
C9_LookupFailurePassesThroughNonEmpty ==
    [][(/\ last'.op \in JobOps
        /\ last'.arg.id # Absent
        /\ last'.op = "modify_job" => last'.arg.id # EmptyId
        /\ ~Held(scheduler, last'.arg.id))
          => /\ last'.engineErr = "JobLookupError"
             /\ last'.outcome = "JobLookupError"
             /\ scheduler' = scheduler]_vars

\* A delete_job of an id the running engine does not hold, beside one it holds.
C9_Witness ==
    /\ last.op = "delete_job"
    /\ last.arg.id = "b"
    /\ last.outcome = "JobLookupError"
    /\ scheduler.running
    /\ DOMAIN scheduler.store = {"a"}

(* ------------------------- the predeclared jobs ----------------------- *)

\* The ids of the calls of `api` in a trace, in order.
IdsCalled(calls, api) ==
    LET hits == SelectSeq(calls, LAMBDA c : c.api = api)
    IN  [i \in 1..Len(hits) |-> hits[i].id]

IdsListed(jobs) == [i \in 1..Len(jobs) |-> jobs[i].id]

\* init_app got as far as the job load: a Flask application, an engine that
\* took the configuration.
LoadReached ==
    /\ last.op = "init_app"
    /\ last.arg.isFlask
    /\ last.outcome # "SchedulerAlreadyRunningError"

\* add_job is called after the engine is configured and before the url rules.
LoadOrdered ==
    /\ last.calls[1] = Call("engine.configure", "-")
    /\ \A i \in 1..Len(last.calls) :
          last.calls[i].api = "app.add_url_rule" => i = Len(last.calls)

\* C8 as claimed, of an init_app that returns normally: when SCHEDULER_JOBS is
\* set, whatever its value, JOBS is not used; add_job is called once for each
\* entry of the chosen list, in list order, after the engine is configured and
\* before the url rules are added.
C8_FirstPresentKeyWins ==
    (LoadReached /\ last.outcome = "ok")
        => /\ LoadOrdered
           /\ IdsCalled(last.calls, "self.add_job") =
                 IdsListed(IF "SCHEDULER_JOBS" \in DOMAIN last.arg.cfg
                           THEN last.arg.cfg["SCHEDULER_JOBS"]
                           ELSE IF "JOBS" \in DOMAIN last.arg.cfg
                                THEN last.arg.cfg["JOBS"] ELSE <<>>)

\* The list init_app loads: SCHEDULER_JOBS when set and not empty, else JOBS.
FirstNonEmpty(cfg) ==
    IF "SCHEDULER_JOBS" \in DOMAIN cfg /\ Len(cfg["SCHEDULER_JOBS"]) > 0
    THEN cfg["SCHEDULER_JOBS"]
    ELSE IF "JOBS" \in DOMAIN cfg THEN cfg["JOBS"] ELSE <<>>

IsPrefix(s, t) == Len(s) <= Len(t) /\ \A i \in 1..Len(s) : s[i] = t[i]

\* C8 as amended: the first key that is set to a non-empty list wins (JOBS is
\* used when SCHEDULER_JOBS is not set or is empty); add_job is called once for
\* each entry of the chosen list, in list order, up to and including the first
\* entry whose add_job fails, after the engine is configured; the url rules
\* are added after the last entry, and only when no add_job failed.
C8_FirstNonEmptyKeyWins ==
    LoadReached
        => LET tried == IdsCalled(last.calls, "self.add_job")
               added == IdsCalled(last.calls, "engine.add_job")
               listed == IdsListed(FirstNonEmpty(last.arg.cfg))
           IN  /\ LoadOrdered
               /\ IsPrefix(tried, listed)
               /\ IF last.outcome = "ok"
                  THEN /\ tried = listed
                       /\ added = listed
                       /\ views_enabled =>
                             last.calls[Len(last.calls)] = Call("app.add_url_rule", "-")
                  ELSE /\ tried # <<>>
                       /\ added = SubSeq(tried, 1, Len(tried) - 1)
                       /\ last.calls[Len(last.calls)] =
                             Call("self.add_job", tried[Len(tried)])

\* SCHEDULER_JOBS set to the empty list and JOBS to one job: that job is added,
\* then the url rules.
C8_Witness ==
    /\ LoadReached
    /\ "SCHEDULER_JOBS" \in DOMAIN last.arg.cfg
    /\ last.arg.cfg["SCHEDULER_JOBS"] = <<>>
    /\ "JOBS" \in DOMAIN last.arg.cfg
    /\ IdsCalled(last.calls, "self.add_job") = <<"b">>
    /\ Len(scheduler.pending) = 2
    /\ last.calls[Len(last.calls)] = Call("app.add_url_rule", "-")

=============================================================================
